---- MODULE Spec2Model ----
(***************************************************************************)
(* The five lottery scripts of YrthTeam/attached_assets as one state       *)
(* machine: fetch_data, the test of the response's shape, and then either  *)
(* the numerology transform (Prediction_*.py, "Mode A") or the passthrough *)
(* of the first number (WinLose_*.py, "Mode B").                           *)
(*                                                                         *)
(* A Python str of decimal characters is a sequence over 0..9; other text  *)
(* is a sequence of TLA+ strings.  A dict is a record, and a key that may  *)
(* be absent is a field that may be absent (item.get('number', 0)).        *)
(***************************************************************************)
EXTENDS Integers, Sequences, FiniteSets, TLC

\* Bounds of the model.
MaxHist == 3        \* records in data.list, full runs (Spec)
MaxDigits == 4      \* records in data.list, transform runs (SpecT)

Digit == 0..9

\* ------------------------------------------------------------------ scripts
P498 == "Prediction_1755397003498"
P428 == "Prediction_1755397014428"
W420 == "WinLose_1755398394420"
W488 == "WinLose_1755398401488"
W429 == "WinLose_1755398410429"

ModeA == {P498, P428}
ModeB == {W420, W488, W429}
Scripts == ModeA \cup ModeB

\* ------------------------------------------------------ Python conversions
RECURSIVE ParseInt(_)
\* int(s) for a non-empty str of decimal characters.
ParseInt(s) ==
  IF Len(s) = 0 THEN 0
  ELSE ParseInt(SubSeq(s, 1, Len(s) - 1)) * 10 + s[Len(s)]

RECURSIVE Str(_)
\* str(n) for an int n >= 0.
Str(n) == IF n < 10 THEN <<n>> ELSE Str(n \div 10) \o <<n % 10>>

RECURSIVE SumSeq(_)
SumSeq(s) == IF Len(s) = 0 THEN 0 ELSE s[1] + SumSeq(Tail(s))

\* DigitSum that sums the one-element list [total]: total never changes.
DigitSumOfWhole(n) == n

\* sum(int(d) for d in str(total))
DigitSum(n) == SumSeq(Str(n))

\* s[i] with Python's indexing: -len(s) <= i < len(s), a negative i counts
\* from the end; anything else raises IndexError.
IndexOK(s, i) == -Len(s) <= i /\ i < Len(s)
PyIndex(s, i) == IF i >= 0 THEN s[i + 1] ELSE s[Len(s) + i + 1]

\* ------------------------------------------------------------- the response
IssueVals == {<<9>>, <<0, 9>>, <<9, 9>>}
NumVals == {<<0, 7>>, <<2>>, <<5>>}
Records ==
  {[issueNumber |-> i] : i \in IssueVals}
    \cup {[issueNumber |-> i, number |-> n] : i \in IssueVals, n \in NumVals}
Histories == UNION {[1..n -> Records] : n \in 0..MaxHist}

ErrTexts == {"timed out"}

\* What the HTTP call can end in: an exception of requests, a body that is
\* not JSON, or a JSON object of one of five shapes.
Responses ==
  {[kind |-> k, e |-> e, shape |-> "none", list |-> <<>>] :
      k \in {"RequestException", "ValueError"}, e \in ErrTexts}
    \cup {[kind |-> "json", e |-> "", shape |-> s, list |-> <<>>] :
            s \in {"empty", "nodata", "datanull", "nolist"}}
    \cup {[kind |-> "json", e |-> "", shape |-> "list", list |-> h] :
            h \in Histories}

\* Python values: None, or a dict given by its keys and the values the
\* scripts read.
PyNone == [t |-> "None", keys |-> {}, error |-> <<>>, list |-> <<>>, inner |-> "absent", ikeys |-> {}]
ErrorDict(msg) ==
  [t |-> "dict", keys |-> {"error"}, error |-> msg, list |-> <<>>, inner |-> "absent", ikeys |-> {}]

\* response.json()
Json(r) ==
  [t |-> "dict",
   keys |-> CASE r.shape = "empty" -> {}
              [] r.shape = "nodata" -> {"code", "msg"}
              [] OTHER -> {"code", "msg", "data"},
   error |-> <<>>,
   list |-> r.list,
   inner |-> CASE r.shape \in {"empty", "nodata"} -> "absent"
               [] r.shape = "datanull" -> "None"
               [] OTHER -> "dict",
   ikeys |-> IF r.shape = "list" THEN {"list"} ELSE {}]

FetchMsg(r) ==
  IF r.kind = "RequestException" THEN <<"Error fetching data: ", r.e>>
  ELSE <<"Error parsing JSON: ", r.e>>

VARIABLES script, pc, response, data, issues, next_issue_number,
          all_numbers_str, pos_index, digit_at_place, next_digit, total,
          stdout, exc

vars == <<script, pc, response, data, issues, next_issue_number,
          all_numbers_str, pos_index, digit_at_place, next_digit, total,
          stdout, exc>>

locals == <<issues, next_issue_number, all_numbers_str, pos_index,
            digit_at_place, next_digit, total>>

Unfetched == [t |-> "unset", keys |-> {}, error |-> <<>>, list |-> <<>>, inner |-> "absent", ikeys |-> {}]
NoResponse == [kind |-> "none", e |-> "", shape |-> "none", list |-> <<>>]

Init ==
  /\ script \in Scripts
  /\ pc = "fetch"
  /\ response = NoResponse
  /\ data = Unfetched
  /\ issues = <<>>
  /\ next_issue_number = <<>>
  /\ all_numbers_str = <<>>
  /\ pos_index = 0
  /\ digit_at_place = 0
  /\ next_digit = 0
  /\ total = 0
  /\ stdout = <<>>
  /\ exc = "none"

\* ------------------------------------------------------------------ fetch
\* What fetch_data returns for response r.
FetchReturn(s, r) ==
  IF r.kind = "json" THEN Json(r)
  ELSE IF s = W429 THEN PyNone
  ELSE ErrorDict(FetchMsg(r))

\* What fetch_data prints for response r.
FetchPrint(s, r) ==
  IF r.kind # "json" /\ s = W429 THEN <<[error |-> FetchMsg(r)]>> ELSE <<>>

FetchData ==
  /\ pc = "fetch"
  /\ \E r \in Responses :
       /\ response' = r
       /\ data' = FetchReturn(script, r)
       /\ stdout' = stdout \o FetchPrint(script, r)
  /\ pc' = "check"
  /\ UNCHANGED <<script, locals, exc>>

\* ------------------------------------------------------------------ check
\* data and 'data' in data and 'list' in data['data']:
\* "TypeError" when data['data'] is None.
Truthy(d) == d.t = "dict" /\ d.keys # {}
HasList(d) ==
  IF ~Truthy(d) THEN "False"
  ELSE IF "data" \notin d.keys THEN "False"
  ELSE IF d.inner = "None" THEN "TypeError"
  ELSE IF "list" \in d.ikeys THEN "True" ELSE "False"

NoData == [error |-> <<"No data available.">>]
NoIssues == [error |-> <<"No issues available.">>]

\* The first statement after issues = data['data']['list'].
CoreEntry(s) ==
  CASE s = P498 -> "highest"
    [] s = P428 -> "transform"
    [] OTHER -> "first"

CheckData ==
  /\ pc = "check"
  /\ IF HasList(data) = "True"
       THEN /\ issues' = data.list
            /\ pc' = CoreEntry(script)
            /\ UNCHANGED <<stdout, exc>>
       ELSE IF HasList(data) = "TypeError"
         THEN /\ pc' = "crashed"
              /\ exc' = "TypeError"
              /\ UNCHANGED <<issues, stdout>>
         ELSE /\ stdout' = Append(stdout, NoData)
              /\ pc' = "done"
              /\ UNCHANGED <<issues, exc>>
  /\ UNCHANGED <<script, response, data, next_issue_number, all_numbers_str,
                 pos_index, digit_at_place, next_digit, total>>

\* ----------------------------------------------------------------- Mode B
\* FirstNumberOf reading issues[-1] in place of issues[0].
FirstNumberOfLast(h) ==
  IF "number" \in DOMAIN h[Len(h)] THEN ParseInt(h[Len(h)].number) ELSE 0

\* int(issues[0].get('number', 0))
FirstNumberOf(h) ==
  IF "number" \in DOMAIN h[1] THEN ParseInt(h[1].number) ELSE 0

FirstNumber ==
  /\ pc = "first"
  /\ stdout' = Append(stdout,
                      IF issues # <<>> THEN [number |-> FirstNumberOf(issues)]
                      ELSE NoIssues)
  /\ pc' = "done"
  /\ UNCHANGED <<script, response, data, locals, exc>>

\* ----------------------------------------------------------------- Mode A
RECURSIVE MaxByIssue(_)
\* max(issues, key=lambda x: int(x['issueNumber'])) for a non-empty list: the
\* first record whose key no other exceeds.
MaxByIssue(h) ==
  IF Len(h) = 1 THEN h[1]
  ELSE LET m == MaxByIssue(SubSeq(h, 1, Len(h) - 1))
       IN IF ParseInt(h[Len(h)].issueNumber) > ParseInt(m.issueNumber)
            THEN h[Len(h)] ELSE m

\* HighestIssueOf taking the first record as the newest, without max().
HighestIssueFirst(h) == h[1]

HighestIssueOf(h) == MaxByIssue(h)

\* str(int(highest_issue['issueNumber']) + 1)
NextIssueNumber(h) == Str(ParseInt(HighestIssueOf(h).issueNumber) + 1)

\* The statement after the transform's loop, and after the max.
AfterReduce(s) == IF s = P498 THEN "result" ELSE "highest"
AfterHighest(s) == IF s = P498 THEN "transform" ELSE "result"

\* max() of an empty list raises ValueError.
HighestIssue ==
  /\ pc = "highest"
  /\ IF issues = <<>>
       THEN /\ pc' = "crashed"
            /\ exc' = "ValueError"
            /\ UNCHANGED next_issue_number
       ELSE /\ next_issue_number' = NextIssueNumber(issues)
            /\ pc' = AfterHighest(script)
            /\ UNCHANGED exc
  /\ UNCHANGED <<script, response, data, issues, all_numbers_str, pos_index,
                 digit_at_place, next_digit, total, stdout>>

\* str(item.get('number', 0))
NumberStr(item) == IF "number" \in DOMAIN item THEN item.number ELSE Str(0)

RECURSIVE Join(_)
\* ''.join(str(item.get('number', 0)) for item in issues)
Join(h) == IF Len(h) = 0 THEN <<>> ELSE NumberStr(h[1]) \o Join(Tail(h))

FirstNum(s) == s[1]
PosIndex(s) == Len(s) - FirstNum(s)
DigitAtPlace(s) == PyIndex(s, PosIndex(s))
\* NextDigit stepping toward the end of the string, not toward its front.
NextDigitRight(s) ==
  IF PosIndex(s) + 1 < Len(s) THEN PyIndex(s, PosIndex(s) + 1) ELSE 0

NextDigit(s) ==
  IF PosIndex(s) - 1 >= 0 THEN PyIndex(s, PosIndex(s) - 1) ELSE 0
LastDigit(s) == PyIndex(s, -1)
Total(s) == (DigitAtPlace(s) + NextDigit(s)) * LastDigit(s)

\* From the join to total: all_numbers_str[0] of an empty string and
\* all_numbers_str[pos_index] out of range raise IndexError.
Transform ==
  /\ pc = "transform"
  /\ LET s == Join(issues) IN
       /\ all_numbers_str' = s
       /\ IF Len(s) = 0
            THEN /\ pc' = "crashed"
                 /\ exc' = "IndexError"
                 /\ UNCHANGED <<pos_index, digit_at_place, next_digit, total>>
            ELSE IF ~IndexOK(s, PosIndex(s))
              THEN /\ pos_index' = PosIndex(s)
                   /\ pc' = "crashed"
                   /\ exc' = "IndexError"
                   /\ UNCHANGED <<digit_at_place, next_digit, total>>
              ELSE /\ pos_index' = PosIndex(s)
                   /\ digit_at_place' = DigitAtPlace(s)
                   /\ next_digit' = NextDigit(s)
                   /\ total' = Total(s)
                   /\ pc' = "reduce"
                   /\ UNCHANGED exc
  /\ UNCHANGED <<script, response, data, issues, next_issue_number, stdout>>

\* One iteration of: while total > 9: total = sum(int(d) for d in str(total))
ReduceStep ==
  /\ pc = "reduce"
  /\ total > 9
  /\ total' = DigitSum(total)
  /\ UNCHANGED <<script, pc, response, data, issues, next_issue_number,
                 all_numbers_str, pos_index, digit_at_place, next_digit,
                 stdout, exc>>

ReduceExit ==
  /\ pc = "reduce"
  /\ ~(total > 9)
  /\ pc' = AfterReduce(script)
  /\ UNCHANGED <<script, response, data, locals, stdout, exc>>

Size(d) == IF d <= 4 THEN "Small" ELSE "Big"
\* f"{result_digit} {size}"
ComputedResult(d) == Str(d) \o <<" ", Size(d)>>
\* AllNumbers parsing all_numbers_str[:-1]: the last character is lost.
AllNumbersCut(s) == ParseInt(SubSeq(s, 1, Len(s) - 1))

\* int(all_numbers_str)
AllNumbers(s) == ParseInt(s)

Result ==
  [next_issue_number |-> next_issue_number,
   all_numbers |-> AllNumbers(all_numbers_str),
   computed_result |-> ComputedResult(total)]

PrintResult ==
  /\ pc = "result"
  /\ stdout' = Append(stdout, Result)
  /\ pc' = "done"
  /\ UNCHANGED <<script, response, data, locals, exc>>

Next ==
  \/ FetchData
  \/ CheckData
  \/ FirstNumber
  \/ HighestIssue
  \/ Transform
  \/ ReduceStep
  \/ ReduceExit
  \/ PrintResult

Spec == Init /\ [][Next]_vars

\* ------------------------------------------------- the transform on its own
\* The Mode A scripts from the statement after issues = data['data']['list'],
\* on every list of up to MaxDigits single-digit draws.
DigitStrings == UNION {[1..n -> Digit] : n \in 0..MaxDigits}
DrawsOf(ds) ==
  [i \in 1..Len(ds) |-> [issueNumber |-> Str(i), number |-> <<ds[i]>>]]
ListResponse(h) == [kind |-> "json", e |-> "", shape |-> "list", list |-> h]

\* A Mode A script holding the list of the draws of one of the strings S.
InitFrom(S) ==
  /\ script \in ModeA
  /\ pc = CoreEntry(script)
  /\ \E ds \in S :
       /\ response = ListResponse(DrawsOf(ds))
       /\ data = Json(ListResponse(DrawsOf(ds)))
       /\ issues = DrawsOf(ds)
  /\ next_issue_number = <<>>
  /\ all_numbers_str = <<>>
  /\ pos_index = 0
  /\ digit_at_place = 0
  /\ next_digit = 0
  /\ total = 0
  /\ stdout = <<>>
  /\ exc = "none"

NextT ==
  \/ HighestIssue
  \/ Transform
  \/ ReduceStep
  \/ ReduceExit
  \/ PrintResult

InitT == InitFrom(DigitStrings)

SpecT == InitT /\ [][NextT]_vars

\* ------------------------------------------------------ the loop on its own
\* The digits "2ndl": length 4 and first 2 put position at 2, so that
\* digit_at_place = d, next_digit = n and last_digit = l range over every
\* triple of single digits.  The script is one sequential process that runs
\* on while it has a statement to execute: weak fairness of its step.
ReduceInputs == {<<2, n, d, l>> : n \in Digit, d \in Digit, l \in Digit}

InitR == InitFrom(ReduceInputs)

SpecR == InitR /\ [][NextT]_vars /\ WF_vars(NextT)

Terminated == pc \in {"done", "crashed"}

\* ------------------------------------------------------- the claims' terms
\* A run of a Mode A script that printed its result mapping.
ResultPrinted ==
  /\ script \in ModeA
  /\ pc = "done"
  /\ Len(stdout) = 1
  /\ "computed_result" \in DOMAIN stdout[1]

\* The last thing printed is an error mapping and nothing was raised.
EndsInErrorResult ==
  /\ pc = "done"
  /\ exc = "none"
  /\ Len(stdout) >= 1
  /\ DOMAIN stdout[Len(stdout)] = {"error"}

GotList == response.kind = "json" /\ response.shape = "list"

RECURSIVE Pow10(_)
Pow10(k) == IF k = 0 THEN 1 ELSE 10 * Pow10(k - 1)

RECURSIVE DecValue(_)
\* The number a decimal numeral denotes, by place value from its first digit.
DecValue(s) ==
  IF Len(s) = 0 THEN 0 ELSE s[1] * Pow10(Len(s) - 1) + DecValue(Tail(s))

\* A decimal numeral as str() writes it: digits only, no leading zero.
Canonical(s) ==
  /\ Len(s) >= 1
  /\ \A i \in DOMAIN s : s[i] \in Digit
  /\ Len(s) = 1 \/ s[1] # 0

SetMax(S) == CHOOSE m \in S : \A x \in S : x <= m
IssueInts(h) == {DecValue(h[i].issueNumber) : i \in DOMAIN h}
Perms(h) == {[i \in DOMAIN h |-> h[p[i]]] : p \in Permutations(DOMAIN h)}

RECURSIVE ZFill(_, _)
\* s left-padded with zeros to n characters.
ZFill(s, n) == IF Len(s) >= n THEN s ELSE ZFill(<<0>> \o s, n)

\* The text of a record's number field, 0 when it has none.
NumberText(item) == IF "number" \in DOMAIN item THEN item.number ELSE <<0>>

RECURSIVE IsConcat(_, _)
\* s is the records' number texts one after the other, in the list's order
\* (matched from the last record back).
IsConcat(s, h) ==
  IF Len(h) = 0 THEN Len(s) = 0
  ELSE LET n == NumberText(h[Len(h)]) IN
         /\ Len(s) >= Len(n)
         /\ SubSeq(s, Len(s) - Len(n) + 1, Len(s)) = n
         /\ IsConcat(SubSeq(s, 1, Len(s) - Len(n)), SubSeq(h, 1, Len(h) - 1))

\* The digital root in closed form.
DigitalRoot(n) == IF n = 0 THEN 0 ELSE 1 + ((n - 1) % 9)

\* computed_result as the claim C6 states it, for digits ds with
\* 1 <= first <= length (ds is indexed from 1, the claim's digits from 0).
ClaimedComputedResult(ds) ==
  LET length == Len(ds)
      first == ds[1]
      nd == IF length - first >= 1 THEN ds[length - first] ELSE 0
      d == DigitalRoot((ds[length - first + 1] + nd) * ds[length])
  IN <<d, " ", IF d <= 4 THEN "Small" ELSE "Big">>

\* ---------------------------------------------------------------- claims

\* C1: when data.list is present but empty, the run of every script, Mode A
\* and Mode B alike, ends with an error mapping printed and nothing raised.
C1_EmptyListYieldsErrorResult ==
  (Terminated /\ GotList /\ response.list = <<>>) => EndsInErrorResult

\* C2: in Mode A, a non-empty history whose digit string starts with 0 ends
\* in an error mapping printed, never in an out-of-range access.
C2_LeadingZeroIsInputError ==
  (Terminated /\ script \in ModeA /\ GotList /\ response.list # <<>>
     /\ Join(response.list)[1] = 0)
    => (EndsInErrorResult /\ exc # "IndexError")

\* C3: every run of every script prints exactly one mapping, on every path.
C3_ExactlyOneOutput == Terminated => Len(stdout) = 1

\* C4: when the fetch fails or the body is not JSON, what the run prints is
\* the error mapping with that failure's own message, and no other message.
C4_FetchErrorReachesOutput ==
  (Terminated /\ response.kind \in {"RequestException", "ValueError"})
    => (/\ Len(stdout) >= 1
        /\ \A i \in DOMAIN stdout : stdout[i] = [error |-> FetchMsg(response)])

\* C5: in Mode A, next_issue_number is the decimal numeral of the greatest
\* issueNumber (as integers) plus one, whatever the order of the records.
C5_NextIssueNumber ==
  (script \in ModeA /\ next_issue_number # <<>>)
    => (/\ Canonical(next_issue_number)
        /\ DecValue(next_issue_number) = SetMax(IssueInts(issues)) + 1
        /\ \A q \in Perms(issues) : NextIssueNumber(q) = next_issue_number
        /\ ResultPrinted => stdout[1].next_issue_number = next_issue_number)

C5_Witness ==
  /\ ResultPrinted
  /\ Len(issues) = 3
  /\ issues[1].issueNumber = <<9>>
  /\ issues[2].issueNumber = <<9, 9>>
  /\ issues[3].issueNumber = <<0, 9>>
  /\ stdout[1].next_issue_number = <<1, 0, 0>>

\* C6: in Mode A, digits with 1 <= first <= length give computed_result
\* "<d> <size>", d the digit-sum reduction of
\* (digits[length - first] + next_digit) * digits[length - 1], next_digit
\* the digit before position length - first or 0 at position 0, size Small
\* iff d <= 4; digits "4917" give "1 Small".
C6_ComputedResult ==
  (Terminated /\ script \in ModeA /\ issues # <<>>
     /\ 1 <= Join(issues)[1] /\ Join(issues)[1] <= Len(Join(issues)))
    => (/\ ResultPrinted
        /\ stdout[1].computed_result = ClaimedComputedResult(Join(issues))
        /\ Join(issues) = <<4, 9, 1, 7>>
             => stdout[1].computed_result = <<1, " ", "Small">>)

C6_Witness ==
  /\ ResultPrinted
  /\ all_numbers_str = <<4, 9, 1, 7>>
  /\ stdout[1].computed_result = <<1, " ", "Small">>

\* C7: in Mode B, a non-empty history gives exactly {number: n}, n the
\* integer value of the first record's number, 0 when it has none.
C7_Passthrough ==
  (Terminated /\ script \in ModeB /\ GotList /\ response.list # <<>>)
    => (/\ pc = "done"
        /\ exc = "none"
        /\ stdout = <<[number |-> DecValue(NumberText(response.list[1]))]>>)

C7_Witness ==
  /\ script \in ModeB
  /\ pc = "done"
  /\ Len(issues) = 3
  /\ NumberText(issues[1]) = <<0, 7>>
  /\ NumberText(issues[2]) = <<5>>
  /\ NumberText(issues[3]) = <<2>>
  /\ stdout = <<[number |-> 7]>>

\* C8: in Mode A, all_numbers written in decimal and left-padded with zeros
\* to length characters is digits, the number fields in API order.
C8_AllNumbersRoundTrip ==
  /\ (script \in ModeA /\ all_numbers_str # <<>>)
       => (/\ IsConcat(all_numbers_str, issues)
           /\ ZFill(Str(AllNumbers(all_numbers_str)), Len(all_numbers_str))
                = all_numbers_str)
  /\ ResultPrinted
       => ZFill(Str(stdout[1].all_numbers), Len(all_numbers_str))
            = all_numbers_str

C8_Witness ==
  /\ ResultPrinted
  /\ all_numbers_str = <<2, 0, 5, 9>>
  /\ stdout[1].all_numbers = 2059

\* C9: the loop "while total > 9" starts from a total in 0..162, each of
\* its iterations strictly decreases total, it terminates, and the value it
\* leaves is a single digit 0..9.
C9_ReductionTerminates ==
  /\ [](pc = "reduce" => total \in 0..((9 + 9) * 9))
  /\ [][(pc = "reduce" /\ total > 9) => (0 <= total' /\ total' < total)]_vars
  /\ [](pc \in {"result", "done"} => total \in 0..9)
  /\ (pc = "reduce") ~> (pc # "reduce")

C9_Witness ==
  /\ ResultPrinted
  /\ (digit_at_place + next_digit) * LastDigit(all_numbers_str) = (9 + 9) * 9
  /\ total = 9

\* C10: in Mode A, a computed_result comes only from a digit read at
\* position = length - first with 0 <= position < length, counted from the
\* start of digits; a negative position yields no computed_result.
C10_PositionInRange ==
  ResultPrinted
    => (/\ 0 <= pos_index
        /\ pos_index < Len(all_numbers_str)
        /\ pos_index = Len(all_numbers_str) - all_numbers_str[1])
====
